---- MODULE Spec2Model ----
(***************************************************************************)
(* Design-job pipeline of the acoustic panel visualiser.                   *)
(*                                                                         *)
(* The job store (server/storage.ts), the POST /api/designs handler and    *)
(* the three processDesign pipelines of the repository (procedural         *)
(* compositing, mask-based edit, plain generation) are modelled as one     *)
(* state machine; the geometry of the pipelines is modelled by operators.  *)
(*                                                                         *)
(* Numbers.  Percentages handled after the wall-bounds validation can be   *)
(* half-integers (the code adds panel.width/2), so every validated panel   *)
(* field is kept in HALF-PERCENT units (twice the percentage).  Pixel      *)
(* arithmetic is exact integer arithmetic; Math.round is RoundDiv.         *)
(***************************************************************************)
EXTENDS Integers, Sequences, FiniteSets, TLC

\* ------------------------------------------------------------------ bounds

\* Number of design jobs that can be created in one behaviour.
MaxJobs == 2

\* ------------------------------------------------------------- arithmetic

Max(a, b) == IF a >= b THEN a ELSE b
Min(a, b) == IF a <= b THEN a ELSE b

\* Rounding every quotient up (Math.ceil in place of Math.round).
CeilDiv(n, d) == -((-n) \div d)

\* Math.round(n / d) for d > 0: rounds half up, floor(n/d + 1/2).
RoundDiv(n, d) == (2 * n + d) \div (2 * d)

\* ------------------------------------------------------------ JSON values

\* A JSON field as the code reads it: a number, or something that is not one.
JNum(n) == [t |-> "num", v |-> n]
JUndef == [t |-> "undef", v |-> 0]
JStr == [t |-> "str", v |-> 0]
JNull == [t |-> "null", v |-> 0]

\* `Number(v) || dflt`: NaN (undefined, a non-numeric string) and 0
\* (also Number(null)) are falsy and give the default.
NumberOr(v, dflt) == IF v.t = "num" /\ v.v # 0 THEN v.v ELSE dflt

\* ---------------------------------------------------------- panel layouts

Panel(x, y, w, h) == [x |-> x, y |-> y, width |-> w, height |-> h]

\* A default layout that holds three panels whatever the count.
DefaultPanelsOfThree(count) ==
  << [x |-> 35, y |-> 40, width |-> 8, height |-> 16],
     [x |-> 50, y |-> 45, width |-> 10, height |-> 10],
     [x |-> 65, y |-> 42, width |-> 9, height |-> 12] >>

\* createDefaultLayout(count).panels, in percent.
DefaultPanels(count) ==
  IF count = 3 THEN
    << Panel(35, 40, 8, 16), Panel(50, 45, 10, 10), Panel(65, 42, 9, 12) >>
  ELSE IF count = 5 THEN
    << Panel(30, 35, 8, 18), Panel(42, 45, 9, 9), Panel(55, 38, 10, 14),
       Panel(67, 48, 8, 12), Panel(78, 40, 7, 16) >>
  ELSE
    << Panel(20, 30, 7, 14), Panel(30, 45, 8, 8), Panel(38, 32, 6, 12),
       Panel(48, 50, 9, 10), Panel(50, 35, 7, 16), Panel(60, 42, 8, 8),
       Panel(68, 30, 6, 14), Panel(72, 48, 7, 10), Panel(80, 36, 8, 12),
       Panel(85, 50, 6, 8) >>

Bounds(x, y, w, h) == [t |-> "object", x |-> x, y |-> y, width |-> w, height |-> h]
NoBounds == [t |-> "undef", x |-> 0, y |-> 0, width |-> 0, height |-> 0]

\* A truthy wallBounds without numeric fields (a string, a number, `{}`):
\* reading x, y, width or height of it gives undefined.
OtherBounds == [t |-> "other", x |-> 0, y |-> 0, width |-> 0, height |-> 0]

\* NaN: a value computed from an undefined field carries the mark `nan`;
\* its numeric fields then mean nothing.  Every comparison with NaN is false.
IsNaN(v) == "nan" \in DOMAIN v /\ v.nan

\* createDefaultLayout(count): the whole analysis object.
createDefaultLayout(count) ==
  [ panelCount |-> count,
    wallBounds |-> Bounds(15, 20, 70, 60),
    panels |-> DefaultPanels(count),
    lightingDirection |-> "above" ]

\* ------------------------------------------------- parsing the analysis

\* The vision service's answer text.  kind "object" is a text whose
\* /\{[\s\S]*\}/ match parses as a JSON object with the fields below;
\* "empty" and "nojson" have no match, "malformed" has a match that
\* JSON.parse rejects.
\*   panelCount        a JSON value
\*   wallBounds        Bounds(..), NoBounds (absent or null) or OtherBounds
\*   panels            [t |-> "array" | "undef" | "num", items |-> panels]
\*                     items: records of four JSON values
\*   lightingDirection "left" | "right" | "above" | "diffuse" | "undef"
TextObject(count, wb, panels, light) ==
  [ kind |-> "object", panelCount |-> count, wallBounds |-> wb,
    panels |-> panels, lightingDirection |-> light ]
TextOther(kind) ==
  [ kind |-> kind, panelCount |-> JUndef, wallBounds |-> NoBounds,
    panels |-> [t |-> "undef", items |-> << >>], lightingDirection |-> "undef" ]

JArray(items) == [t |-> "array", items |-> items]
JPanel(x, y, w, h) == [x |-> x, y |-> y, width |-> w, height |-> h]

\* The panel set configurations: name and count of each set.
PANEL_SETS ==
  [ small |-> [name |-> "Set of 3", count |-> 3],
    medium |-> [name |-> "Set of 5", count |-> 5],
    large |-> [name |-> "Set of 10", count |-> 10] ]

\* Select panel set based on validated count.
panelSetKey(panelCount) ==
  IF panelCount = 3 THEN "small" ELSE IF panelCount = 10 THEN "large" ELSE "medium"

\* A coercion that clamps the count to 3..10 without snapping it.
CoercePanelCountClamped(raw) == Max(3, Min(10, NumberOr(raw, 5)))

\* Coerce panelCount to exactly 3, 5 or 10.
CoercePanelCount(raw) ==
  LET rawCount == NumberOr(raw, 5)
  IN  IF rawCount <= 3 THEN 3 ELSE IF rawCount <= 7 THEN 5 ELSE 10

\* Validate and clamp one panel of the answer.
ClampPanel(p) ==
  Panel( Max(5, Min(95, NumberOr(p.x, 50))),
         Max(5, Min(95, NumberOr(p.y, 50))),
         Max(3, Min(20, NumberOr(p.width, 8))),
         Max(5, Min(30, NumberOr(p.height, 12))) )

ClampPanels(items) == [i \in 1..Len(items) |-> ClampPanel(items[i])]

\* The while loop that fills missing panels from the default layout: one
\* iteration appends defaultPanels[idx] when idx is inside the default
\* layout.  `fuel` bounds the unrolling; the loop of the code has no bound.
RECURSIVE FillPanels(_, _, _, _)
FillPanels(panels, panelCount, defaultPanels, fuel) ==
  IF Len(panels) >= panelCount \/ fuel = 0 THEN panels
  ELSE LET idx == Len(panels)
       IN  IF idx < Len(defaultPanels)
           THEN FillPanels(Append(panels, defaultPanels[idx + 1]),
                           panelCount, defaultPanels, fuel - 1)
           ELSE FillPanels(panels, panelCount, defaultPanels, fuel - 1)

\* Normalize the panel array to exactly panelCount entries.
NormalizePanels(panels, panelCount) ==
  IF Len(panels) > panelCount THEN SubSeq(panels, 1, panelCount)
  ELSE IF Len(panels) < panelCount
       THEN FillPanels(panels, panelCount, DefaultPanels(panelCount), panelCount)
       ELSE panels

\* TRUE when the inner try block throws: no JSON match, JSON.parse fails,
\* or `(analysis.panels || []).map` is not a function.
ParseThrows(text) ==
  \/ text.kind # "object"
  \/ text.panels.t \notin {"array", "undef"}

\* The inner try/catch: the parsed and repaired analysis, or the default
\* layout for 5 panels.
ParseAnalysis(text) ==
  IF ParseThrows(text) THEN createDefaultLayout(5)
  ELSE LET count == CoercePanelCount(text.panelCount)
       IN  [ panelCount |-> count,
             wallBounds |-> text.wallBounds,
             panels |-> NormalizePanels(ClampPanels(text.panels.items), count),
             lightingDirection |-> text.lightingDirection ]

\* `analysis.wallBounds || { x: 10, y: 10, width: 80, height: 80 }`
WallBoundsOrDefault(wb) == IF wb.t = "undef" THEN Bounds(10, 10, 80, 80) ELSE wb

\* A validation that leaves the panel center where the answer put it.
ValidatePanelUnclamped(panel, wallBounds) ==
  [x |-> 2 * panel.x, y |-> 2 * panel.y,
   width |-> 2 * panel.width, height |-> 2 * panel.height]

\* Validate one panel against the wall bounds: only the center moves.
\* Input in percent, result in half-percent units.  The wall bounds are
\* used as the answer gave them; Math.max / Math.min of NaN is NaN.
ValidatePanel(panel, wallBounds) ==
  LET wallLeft == 2 * wallBounds.x
      wallRight == 2 * (wallBounds.x + wallBounds.width)
      wallTop == 2 * wallBounds.y
      wallBottom == 2 * (wallBounds.y + wallBounds.height)
      clampedX == Max(wallLeft + panel.width, Min(wallRight - panel.width, 2 * panel.x))
      clampedY == Max(wallTop + panel.height, Min(wallBottom - panel.height, 2 * panel.y))
  IN  IF wallBounds.t = "other"
      THEN [ x |-> 0, y |-> 0, width |-> 2 * panel.width,
             height |-> 2 * panel.height, nan |-> TRUE ]
      ELSE Panel(clampedX, clampedY, 2 * panel.width, 2 * panel.height)

\* The validation loop and the (never taken) fallback to the default layout.
ValidatePanels(analysis) ==
  LET wallBounds == WallBoundsOrDefault(analysis.wallBounds)
      validated == [i \in 1..Len(analysis.panels) |->
                      ValidatePanel(analysis.panels[i], wallBounds)]
  IN  IF Len(validated) < analysis.panelCount
      THEN [i \in 1..Len(DefaultPanels(analysis.panelCount)) |->
              LET d == DefaultPanels(analysis.panelCount)[i]
              IN  Panel(2 * d.x, 2 * d.y, 2 * d.width, 2 * d.height)]
      ELSE validated

\* ------------------------------------------- procedural pixel mapping

\* Panel dimensions in pixels as first computed, before any clamp: the
\* panel is in half-percent units and every percentage is taken of the
\* whole image.
RawRect(panel, origWidth, origHeight) ==
  LET panelW == RoundDiv(panel.width * origWidth, 200)
      panelH == RoundDiv(panel.height * origHeight, 200)
  IN  [ x |-> RoundDiv(panel.x * origWidth - 100 * panelW, 200),
        y |-> RoundDiv(panel.y * origHeight - 100 * panelH, 200),
        w |-> panelW, h |-> panelH ]

\* Panel dimensions in pixels, then clamped to the image bounds.  The
\* panel is in half-percent units of the whole image.  With a NaN center
\* panelX and panelY are NaN and no clamp applies.
PanelRect(panel, origWidth, origHeight) ==
  LET panelW0 == RoundDiv(panel.width * origWidth, 200)
      panelH0 == RoundDiv(panel.height * origHeight, 200)
      panelX0 == RoundDiv(panel.x * origWidth - 100 * panelW0, 200)
      panelY0 == RoundDiv(panel.y * origHeight - 100 * panelH0, 200)
      panelW1 == IF panelX0 < 0 THEN panelW0 + panelX0 ELSE panelW0
      panelX == IF panelX0 < 0 THEN 0 ELSE panelX0
      panelH1 == IF panelY0 < 0 THEN panelH0 + panelY0 ELSE panelH0
      panelY == IF panelY0 < 0 THEN 0 ELSE panelY0
      panelW == IF panelX + panelW1 > origWidth THEN origWidth - panelX ELSE panelW1
      panelH == IF panelY + panelH1 > origHeight THEN origHeight - panelY ELSE panelH1
  IN  IF IsNaN(panel)
      THEN [x |-> 0, y |-> 0, w |-> panelW0, h |-> panelH0, nan |-> TRUE]
      ELSE [x |-> panelX, y |-> panelY, w |-> panelW, h |-> panelH]

\* A panel loop without the minimum size check.
TooSmallNever(rect) == FALSE

\* Skip if the panel is too small after clamping.
TooSmall(rect) == rect.w < 10 \/ rect.h < 10

\* Shadow offset from the lighting direction; the default is light from above.
ShadowOffset(lightingDirection) ==
  LET lightDir == IF lightingDirection = "undef" THEN "above" ELSE lightingDirection
  IN  IF lightDir = "left" THEN [x |-> 4, y |-> 2]
      ELSE IF lightDir = "right" THEN [x |-> -4, y |-> 2]
      ELSE IF lightDir = "diffuse" THEN [x |-> 2, y |-> 2]
      ELSE [x |-> 0, y |-> 4]

\* The shadow rectangle of a surviving panel, clamped to the image bounds.
ShadowRect(rect, lightingDirection, origWidth, origHeight) ==
  LET minSide == Min(origWidth, origHeight)
      off == ShadowOffset(lightingDirection)
      scaledShadowX == RoundDiv(off.x * minSide * 2, 1000)
      scaledShadowY == RoundDiv(off.y * minSide * 2, 1000)
      shadowBlur == Max(3, RoundDiv(6 * minSide, 1000))
      shadowX0 == rect.x + scaledShadowX
      shadowY0 == rect.y + scaledShadowY
      shadowW0 == rect.w + shadowBlur
      shadowH0 == rect.h + shadowBlur
      shadowW1 == IF shadowX0 < 0 THEN shadowW0 + shadowX0 ELSE shadowW0
      shadowX == IF shadowX0 < 0 THEN 0 ELSE shadowX0
      shadowH1 == IF shadowY0 < 0 THEN shadowH0 + shadowY0 ELSE shadowH0
      shadowY == IF shadowY0 < 0 THEN 0 ELSE shadowY0
      shadowW == IF shadowX + shadowW1 > origWidth THEN origWidth - shadowX ELSE shadowW1
      shadowH == IF shadowY + shadowH1 > origHeight THEN origHeight - shadowY ELSE shadowH1
  IN  IF IsNaN(rect)
      THEN [x |-> 0, y |-> 0, w |-> shadowW0, h |-> shadowH0, nan |-> TRUE]
      ELSE [x |-> shadowX, y |-> shadowY, w |-> shadowW, h |-> shadowH]

\* An entry of panelOverlays; `nan` marks left and top being NaN.
Layer(kind, i, rect) ==
  [kind |-> kind, panel |-> i, left |-> rect.x, top |-> rect.y,
   width |-> rect.w, height |-> rect.h, nan |-> IsNaN(rect)]

\* The final panel image (finalPanel): the fill of the panel's size with
\* the highlight strip composited onto it at its top edge.
PanelStack(rect) ==
  << [kind |-> "fill", left |-> 0, top |-> 0, width |-> rect.w, height |-> rect.h],
     [kind |-> "highlight", left |-> 0, top |-> 0, width |-> rect.w,
      height |-> Max(2, RoundDiv(3 * rect.h, 100))] >>

\* A panel loop that pushes the shadow after the panel.
PanelLayersShadowOnTop(i, panel, lightingDirection, origWidth, origHeight) ==
  LET rect == PanelRect(panel, origWidth, origHeight)
      shadow == ShadowRect(rect, lightingDirection, origWidth, origHeight)
  IN  IF TooSmall(rect) THEN << >>
      ELSE << Layer("panel", i, rect) >> \o
           (IF shadow.w > 5 /\ shadow.h > 5
            THEN << Layer("shadow", i, shadow) >> ELSE << >>)

\* The overlays one iteration of the panel loop pushes: nothing for a
\* skipped panel, else the shadow (if still valid size) and then the panel.
PanelLayers(i, panel, lightingDirection, origWidth, origHeight) ==
  LET rect == PanelRect(panel, origWidth, origHeight)
      shadow == ShadowRect(rect, lightingDirection, origWidth, origHeight)
  IN  IF TooSmall(rect) THEN << >>
      ELSE (IF shadow.w > 5 /\ shadow.h > 5
            THEN << Layer("shadow", i, shadow) >> ELSE << >>)
           \o << Layer("panel", i, rect) >>

\* panelOverlays after the loop has run over panels 1..n.
RECURSIVE PanelOverlays(_, _, _, _, _)
PanelOverlays(panels, n, lightingDirection, origWidth, origHeight) ==
  IF n = 0 THEN << >>
  ELSE PanelOverlays(panels, n - 1, lightingDirection, origWidth, origHeight)
       \o PanelLayers(n, panels[n], lightingDirection, origWidth, origHeight)

\* The panels of the layout that survive clamping and the minimum size.
Survivors(panels, origWidth, origHeight) ==
  {i \in 1..Len(panels) : ~TooSmall(PanelRect(panels[i], origWidth, origHeight))}

\* ------------------------------------------------- mask-edit geometry

\* Side of the square canvas sent to the edit service.
targetSize == 1024

\* Letterbox the original image into the square canvas.
Letterbox(origWidth, origHeight) ==
  IF origWidth > origHeight
  THEN LET innerHeight == RoundDiv(targetSize * origHeight, origWidth)
       IN  [ innerWidth |-> targetSize, innerHeight |-> innerHeight,
             offsetX |-> 0, offsetY |-> RoundDiv(targetSize - innerHeight, 2) ]
  ELSE LET innerWidth == RoundDiv(targetSize * origWidth, origHeight)
       IN  [ innerWidth |-> innerWidth, innerHeight |-> targetSize,
             offsetX |-> RoundDiv(targetSize - innerWidth, 2), offsetY |-> 0 ]

\* A panel (half-percent units) in the inner (letterboxed) coordinate space.
InnerRect(panel, lb) ==
  LET panelW == RoundDiv(panel.width * lb.innerWidth, 200)
      panelH == RoundDiv(panel.height * lb.innerHeight, 200)
  IN  [ x |-> RoundDiv(panel.x * lb.innerWidth - 100 * panelW, 200),
        y |-> RoundDiv(panel.y * lb.innerHeight - 100 * panelH, 200),
        w |-> panelW, h |-> panelH ]

\* The panel's rectangle on the canvas: the inner rectangle plus the offset.
MaskRect(panel, lb) ==
  LET r == InnerRect(panel, lb)
  IN  [x |-> lb.offsetX + r.x, y |-> lb.offsetY + r.y, w |-> r.w, h |-> r.h]

\* Skip if the panel would be outside the canvas.
OutsideCanvas(r) ==
  r.x < 0 \/ r.y < 0 \/ r.x + r.w > targetSize \/ r.y + r.h > targetSize

\* A default-layout entry (percent) in half-percent units.
HalfUnits(d) == Panel(2 * d.x, 2 * d.y, 2 * d.width, 2 * d.height)

\* The mask regions of the validated panels, in order, skipped ones left out.
RECURSIVE MaskOfValidated(_, _, _)
MaskOfValidated(panels, n, lb) ==
  IF n = 0 THEN << >>
  ELSE MaskOfValidated(panels, n - 1, lb)
       \o (IF OutsideCanvas(MaskRect(panels[n], lb)) THEN << >>
           ELSE << [ left |-> MaskRect(panels[n], lb).x,
                     top |-> MaskRect(panels[n], lb).y,
                     width |-> Max(1, MaskRect(panels[n], lb).w),
                     height |-> Max(1, MaskRect(panels[n], lb).h) ] >>)

\* The fallback mask: one region per default panel, moved into the canvas.
MaskOfFallback(panelCount, lb) ==
  [i \in 1..Len(DefaultPanels(panelCount)) |->
     LET r == MaskRect(HalfUnits(DefaultPanels(panelCount)[i]), lb)
     IN  [ left |-> Max(0, r.x), top |-> Max(0, r.y),
           width |-> Max(1, r.w), height |-> Max(1, r.h) ]]

\* Build the mask and choose the panels used for compositing: the
\* validated panels when every one of them is in the mask, else the
\* default layout for the expected count.
BuildMask(validatedPanels, expectedCount, lb) ==
  LET mask == MaskOfValidated(validatedPanels, Len(validatedPanels), lb)
  IN  IF Len(mask) < expectedCount
      THEN [ maskComposites |-> MaskOfFallback(expectedCount, lb),
             panels |-> [i \in 1..Len(DefaultPanels(expectedCount)) |->
                           HalfUnits(DefaultPanels(expectedCount)[i])] ]
      ELSE [ maskComposites |-> mask, panels |-> validatedPanels ]

\* Skip invalid panels: the inner rectangle leaves the inner region.
OutsideInner(r, lb) ==
  r.x < 0 \/ r.y < 0 \/ r.x + r.w > lb.innerWidth \/ r.y + r.h > lb.innerHeight

\* Scale a panel's inner rectangle back to the original image dimensions.
ScaleBack(r, lb, origWidth, origHeight) ==
  [ x |-> RoundDiv(r.x * origWidth, lb.innerWidth),
    y |-> RoundDiv(r.y * origHeight, lb.innerHeight),
    w |-> RoundDiv(r.w * origWidth, lb.innerWidth),
    h |-> RoundDiv(r.h * origHeight, lb.innerHeight) ]

\* The image library rejects an extract or a resize of a non-positive size:
\* the inner try/catch then skips the panel.
ExtractRejected(r, lb, origWidth, origHeight) ==
  \/ r.w < 1 \/ r.h < 1
  \/ ScaleBack(r, lb, origWidth, origHeight).w < 1
  \/ ScaleBack(r, lb, origWidth, origHeight).h < 1

\* panelOverlays of the mask-edit pipeline after the loop over panels 1..n;
\* `failing` are the panels whose extraction throws for an outside reason.
RECURSIVE EditOverlays(_, _, _, _, _, _)
EditOverlays(panels, n, lb, origWidth, origHeight, failing) ==
  IF n = 0 THEN << >>
  ELSE LET r == InnerRect(panels[n], lb)
       IN  EditOverlays(panels, n - 1, lb, origWidth, origHeight, failing)
           \o (IF \/ OutsideInner(r, lb)
                  \/ ExtractRejected(r, lb, origWidth, origHeight)
                  \/ n \in failing
               THEN << >>
               ELSE << Layer("panel", n, ScaleBack(r, lb, origWidth, origHeight)) >>)

\* ---------------------------------------------------------- the job store

Jobs == 1..MaxJobs

\* SQL NULL of a column, and an argument that is not passed.
Null == "null"
Undefined == "undefined"

\* `status: text("status").notNull().default("pending")`
DefaultStatus == "pending"

NoDesign ==
  [ exists |-> FALSE, status |-> Null, processedImageUrl |-> Null,
    originalImageUrl |-> Null, prompt |-> Null ]

\* createDesign: the inserted row.  insertDesignSchema omits id, createdAt,
\* status and processedImageUrl, so both take the column defaults.
createDesign(insertDesign) ==
  [ exists |-> TRUE, status |-> DefaultStatus, processedImageUrl |-> Null,
    originalImageUrl |-> insertDesign.originalImageUrl,
    prompt |-> insertDesign.prompt ]

\* updateDesignStatus: `.set({ status, processedImageUrl })`.  A key whose
\* value is undefined is left out of the UPDATE, so the column keeps its
\* value; a row that does not exist is not created.
updateDesignStatus(row, status, processedImageUrl) ==
  IF ~row.exists THEN row
  ELSE [row EXCEPT !.status = status,
                   !.processedImageUrl =
                      IF processedImageUrl = Undefined THEN @ ELSE processedImageUrl]

\* ------------------------------------------------------------- the inputs

\* Uploaded images (originalImageUrl) and what sharp's metadata() gives for
\* them: `originalMeta.width || 1024`, `originalMeta.height || 1024`.
Images == {"data:tiny", "data:photo"}

ImageMeta(imageUrl) ==
  IF imageUrl = "data:tiny" THEN [width |-> 40, height |-> 30]
  ELSE IF imageUrl = "data:photo" THEN [width |-> 200, height |-> 150]
  ELSE IF imageUrl = "data:odd" THEN [width |-> 333, height |-> 77]
  ELSE IF imageUrl = "data:wide" THEN [width |-> 1536, height |-> 1024]
  ELSE IF imageUrl = "data:banner" THEN [width |-> 4096, height |-> 1]
  ELSE IF imageUrl = "data:strip" THEN [width |-> 10, height |-> 1024]
  ELSE [width |-> 1024, height |-> 1024]

\* The prompt the Home page sends with every design.
HomePrompt == "Modern aesthetic acoustic panels"

\* Answers of the vision service.
VisionTexts ==
  { TextOther("nojson"),
    TextObject(JNum(3), Bounds(10, 10, 80, 80),
               JArray(<< JPanel(JNum(2), JNum(50), JNum(3), JNum(20)),
                         JPanel(JNum(50), JNum(50), JNum(12), JNum(20)) >>),
               "left") }

\* An answer whose wall is the whole image and whose panels reach its edges.
EdgeText ==
  TextObject(JNum(3), Bounds(0, 0, 100, 100),
             JArray(<< JPanel(JNum(95), JNum(50), JNum(20), JNum(20)),
                       JPanel(JNum(5), JNum(5), JNum(10), JNum(10)),
                       JPanel(JNum(95), JNum(95), JNum(13), JNum(7)) >>),
             "right")

\* Answers of the vision service of every kind the parser has to stand:
\* no text, no JSON, malformed JSON, several JSON objects (the greedy match
\* spans them all and does not parse), an empty object, missing fields,
\* out-of-range numbers, wrong-typed panelCount, wallBounds and panels,
\* too many panels, panels on top of each other, a wall narrower than a panel.
AnalysisTexts ==
  VisionTexts \cup
  { TextOther("empty"), TextOther("malformed"), TextOther("several"),
    TextObject(JUndef, NoBounds, [t |-> "undef", items |-> << >>], "undef"),
    TextObject(JNum(999), Bounds(200, 200, 80, 80),
               JArray(<< JPanel(JNum(500), JNum(-20), JNum(0), JStr) >>), "right"),
    TextObject(JStr, OtherBounds, JArray(<< >>), "diffuse"),
    TextObject(JNum(5), Bounds(10, 10, 80, 80), [t |-> "num", items |-> << >>], "above"),
    TextObject(JNum(3), Bounds(10, 10, 80, 80),
               JArray(<< JPanel(JNum(50), JNum(50), JNum(12), JNum(20)),
                         JPanel(JNum(50), JNum(50), JNum(12), JNum(20)),
                         JPanel(JNum(52), JNum(50), JNum(12), JNum(20)),
                         JPanel(JNum(90), JNum(90), JNum(12), JNum(20)) >>),
               "above"),
    TextObject(JNull, Bounds(40, 40, 2, 2), JArray(<< >>), "undef"),
    TextObject(JNum(0), NoBounds, JArray(<< >>), "above"),
    TextObject(JNum(-4), NoBounds, JArray(<< >>), "above"),
    TextObject(JNum(7), NoBounds, JArray(<< >>), "above"),
    EdgeText }

\* Images of the layout runs: also one whose metadata has no dimensions,
\* and one of odd size.
LayoutImages == Images \cup {"data:nometa", "data:odd"}

\* Answers and images of the mask-edit runs: also a wide image, and images
\* of extreme aspect ratio.
MaskTexts == VisionTexts \cup {EdgeText}
MaskImages == Images \cup {"data:wide", "data:banner", "data:strip"}

\* Answers of images.edit / images.generate: data[0] with its b64_json and
\* url ("undefined" when absent), or an empty data array.
NoData == [data |-> FALSE, b64_json |-> Undefined, url |-> Undefined]
ImageData(b64, url) == [data |-> TRUE, b64_json |-> b64, url |-> url]
ImageResponses ==
  { ImageData("iVBORw0KGgo", Undefined), ImageData(Undefined, "https://img/1"),
    ImageData(Undefined, Undefined), ImageData("", ""), NoData }

\* JavaScript truthiness of a string-or-absent value.
Truthy(v) == v \notin {"", Undefined, Null}

\* Sets of panels whose extraction from the edited image throws.
ExtractFailures == { {}, {1}, 1..10 }

\* ---------------------------------------------------------------- state

VARIABLES
  variant,      \* the processDesign pipeline of the build
  designs,      \* the designs table: id -> row
  nextId,       \* the serial id of the next row
  pc,           \* id -> position of that job's processDesign invocation
  local,        \* id -> local variables of the invocation
  response,     \* id -> response of the POST /api/designs that created it
  polling,      \* id -> the design's result page still refetches it
  writes,       \* history: id -> the updateDesignStatus calls made for it
  writer,       \* history: id -> the invocations whose calls changed the row
  calls,        \* history: id -> counters of invocations and service calls
  failure       \* history: id -> the first failure the invocation met

vars == << variant, designs, nextId, pc, local, response, polling,
           writes, writer, calls, failure >>

Variants == {"procedural", "maskEdit", "generation"}

NoLocal ==
  [ origWidth |-> 0, origHeight |-> 0, analysisText |-> TextOther("none"),
    wallBounds |-> NoBounds, panelCount |-> 0, panels |-> << >>,
    lightingDirection |-> "undef", maskCount |-> 0, overlays |-> << >>,
    resultUrl |-> Undefined ]

NoResponse == [code |-> 0, status |-> Null, processedImageUrl |-> Null]
NoCalls == [invocations |-> 0, vision |-> 0, image |-> 0]

Init ==
  /\ variant \in Variants
  /\ designs = [j \in Jobs |-> NoDesign]
  /\ nextId = 1
  /\ pc = [j \in Jobs |-> "none"]
  /\ local = [j \in Jobs |-> NoLocal]
  /\ response = [j \in Jobs |-> NoResponse]
  /\ polling = [j \in Jobs |-> TRUE]
  /\ writes = [j \in Jobs |-> << >>]
  /\ writer = [j \in Jobs |-> {}]
  /\ calls = [j \in Jobs |-> NoCalls]
  /\ failure = [j \in Jobs |-> "none"]

\* ------------------------------------------------- POST /api/designs

\* A handler that awaited processDesign: no answer while the promise is pending.
PostDesignsResponseAwaited(design, promise) ==
  IF promise = "pending"
  THEN [code |-> 0, status |-> Null, processedImageUrl |-> Null]
  ELSE [code |-> 201, status |-> design.status,
        processedImageUrl |-> design.processedImageUrl]

\* What the handler sends after it has called processDesign: the call is
\* not awaited, so the promise (still pending) plays no part and the row
\* returned by createDesign is sent as it is.
PostDesignsResponse(design, promise) ==
  [code |-> 201, status |-> design.status,
   processedImageUrl |-> design.processedImageUrl]

\* The handler on a valid body: create the row, start processDesign for its
\* id without awaiting it, respond 201 with the created row.  (On a body the
\* schema rejects, or when createDesign throws, the handler answers 400 or
\* 500 before any row exists and no invocation is started: those paths
\* change nothing of the state kept here.)
PostDesigns(insertDesign) ==
  /\ nextId <= MaxJobs
  /\ LET design == createDesign(insertDesign)
         id == nextId
     IN  /\ designs' = [designs EXCEPT ![id] = design]
         /\ nextId' = nextId + 1
         /\ pc' = [pc EXCEPT ![id] = "start"]
         /\ calls' = [calls EXCEPT ![id].invocations = @ + 1]
         /\ response' = [response EXCEPT ![id] = PostDesignsResponse(design, "pending")]
  /\ UNCHANGED << variant, local, polling, writes, writer, failure >>

\* ------------------------------------------------------------ the client

\* Home.handleFileSelect: upload, then create the design job.
HomeSubmit ==
  \E img \in Images : PostDesigns([originalImageUrl |-> img, prompt |-> HomePrompt])

\* A refetchInterval that stops on a completed design only.
KeepsPollingUntilCompleted(status) == status # "completed"

\* refetchInterval: refetch (2000) while the fetched status is pending or
\* processing, stop (false) on any other, and when there is no data (404).
KeepsPolling(status) == status \in {"pending", "processing"}

\* useDesign: the first fetch, and a refetch while the last fetched status
\* was pending or processing.  The page keeps of the fetched status only
\* whether it goes on polling (isProcessing).
Poll(j) ==
  /\ designs[j].exists
  /\ polling[j]
  /\ polling' = [polling EXCEPT ![j] = KeepsPolling(designs[j].status)]
  /\ UNCHANGED << variant, designs, nextId, pc, local, response,
                  writes, writer, calls, failure >>

\* handleRegenerate ('Try Again', disabled while isProcessing): a new design
\* from the same original image and prompt.
Regenerate(j) ==
  /\ designs[j].exists
  /\ ~polling[j]
  /\ PostDesigns([originalImageUrl |-> designs[j].originalImageUrl,
                  prompt |-> designs[j].prompt])

\* ---------------------------------------------------------- processDesign

\* An update without its where clause: every row.
RowsMatchingNoWhere(designId) == Jobs

\* The rows an update for designId touches: `.where(eq(designs.id, id))`.
RowsMatching(designId) == {designId}

\* One call storage.updateDesignStatus(designId, status, url) made by the
\* invocation for job j, with its outcome: the update is applied, or it
\* throws and leaves the table as it was.
StoreCall(j, designId, status, url, ok) ==
  /\ designs' = IF ok
                THEN [r \in Jobs |-> IF r \in RowsMatching(designId)
                                     THEN updateDesignStatus(designs[r], status, url)
                                     ELSE designs[r]]
                ELSE designs
  /\ writer' = IF ok
               THEN [r \in Jobs |->
                       IF updateDesignStatus(designs[r], status, url) # designs[r]
                          /\ r \in RowsMatching(designId)
                       THEN writer[r] \cup {j} ELSE writer[r]]
               ELSE writer
  /\ writes' = [writes EXCEPT ![j] =
                  Append(@, [status |-> status, url |-> url, ok |-> ok])]

NoStoreCall == UNCHANGED << designs, writer, writes >>

\* The id processDesign passes to the store: its designId argument.
DesignIdOf(j) == j

\* The invocation goes on inside the try block with new local variables.
Step(j, where, loc) ==
  /\ pc' = [pc EXCEPT ![j] = where]
  /\ local' = [local EXCEPT ![j] = loc]
  /\ UNCHANGED failure

\* An exception inside the try block: control is in the catch block, about
\* to write 'failed'; the variables of the try block are out of scope.
\* `what` records the kind of failure: "store" (a job-store update threw),
\* "noOverlays" (the empty overlay check), "noImage" (the image service
\* gave no image data), "step" (any other step threw).  Only the first
\* failure of an invocation is kept.
Caught(j, what) ==
  /\ pc' = [pc EXCEPT ![j] = "catch"]
  /\ local' = [local EXCEPT ![j] = NoLocal]
  /\ failure' = [failure EXCEPT ![j] = IF @ = "none" THEN what ELSE @]

\* Generation pipeline: the answer holds neither image data nor a url; the
\* else branch writes 'failed' inside the try block.
NoUrl(j, loc) ==
  /\ pc' = [pc EXCEPT ![j] = "failedInTry"]
  /\ local' = [local EXCEPT ![j] = loc]
  /\ failure' = [failure EXCEPT ![j] = "noUrl"]

\* The invocation ends: its promise resolves or rejects.
Settle(j, how) ==
  /\ pc' = [pc EXCEPT ![j] = how]
  /\ local' = [local EXCEPT ![j] = NoLocal]
  /\ UNCHANGED failure

\* The step after the 'processing' write.
AfterProcessing == IF variant = "generation" THEN "generate" ELSE "decode"

\* A first write that leaves the job pending.
StartStatusPending == "pending"

\* The status the try block writes first.
StartStatus == "processing"

\* await storage.updateDesignStatus(designId, "processing")
WriteProcessing(j) ==
  /\ pc[j] = "start"
  /\ \E ok \in BOOLEAN :
       /\ StoreCall(j, DesignIdOf(j), StartStatus, Undefined, ok)
       /\ IF ok THEN Step(j, AfterProcessing, local[j])
                ELSE Caught(j, "store")
  /\ UNCHANGED << variant, nextId, response, polling, calls >>

\* Decode the data URL and read the image dimensions; sharp throws on
\* input it cannot read.
DecodeImage(j) ==
  /\ pc[j] = "decode"
  /\ LET meta == ImageMeta(designs[j].originalImageUrl)
     IN  \/ Caught(j, "step")
         \/ Step(j, "vision", [local[j] EXCEPT !.origWidth = meta.width,
                                                !.origHeight = meta.height])
  /\ NoStoreCall
  /\ UNCHANGED << variant, nextId, response, polling, calls >>

\* The vision call, and the synchronous code after it: parse the answer,
\* select the panel set, validate the panels against the wall bounds.
\* `texts` are the answers the service can give.
VisionAnswers(j, texts) ==
  /\ pc[j] = "vision"
  /\ calls' = [calls EXCEPT ![j].vision = @ + 1]
  /\ \/ Caught(j, "step")
     \/ \E text \in texts :
          LET analysis == ParseAnalysis(text)
          IN  Step(j, IF variant = "maskEdit" THEN "mask" ELSE "overlays",
                   [local[j] EXCEPT
                      !.analysisText = text,
                      !.wallBounds = WallBoundsOrDefault(analysis.wallBounds),
                      !.panelCount = analysis.panelCount,
                      !.panels = ValidatePanels(analysis),
                      !.lightingDirection = analysis.lightingDirection])
  /\ NoStoreCall
  /\ UNCHANGED << variant, nextId, response, polling >>

VisionCall(j) == VisionAnswers(j, VisionTexts)

\* The PNG data URL of a composited result: never empty.
ResultUrl == "data:image/png;base64," \o "iVBORw0KGgo"

\* An overlay list kept at module scope: it still holds what the
\* invocation for the job before left in it.
SharedPanelOverlays(j) == IF j > 1 THEN local[j - 1].overlays ELSE << >>

\* `const panelOverlays = []`: the list of the invocation, empty at first.
NewPanelOverlays(j) == << >>

\* Procedural pipeline: the panel loop (shadows and panels are rasterized
\* only for panels that survive) and the empty overlay check.
BuildOverlays(j) ==
  /\ pc[j] = "overlays"
  /\ LET l == local[j]
         overlays == NewPanelOverlays(j) \o
                     PanelOverlays(l.panels, Len(l.panels), l.lightingDirection,
                                   l.origWidth, l.origHeight)
     IN  \/ /\ Survivors(l.panels, l.origWidth, l.origHeight) # {}
            /\ Caught(j, "step")
         \/ IF Len(overlays) = 0
            THEN Caught(j, "noOverlays")
            ELSE Step(j, "composite", [l EXCEPT !.overlays = overlays])
  /\ NoStoreCall
  /\ UNCHANGED << variant, nextId, response, polling, calls >>

\* Mask-edit pipeline: build the mask, fall back to the default layout when
\* a panel was left out, then letterbox the original onto the canvas.
BuildMaskStep(j) ==
  /\ pc[j] = "mask"
  /\ LET l == local[j]
         lb == Letterbox(l.origWidth, l.origHeight)
         built == BuildMask(l.panels, l.panelCount, lb)
     IN  \/ Caught(j, "step")
         \/ IF Len(built.maskComposites) = 0
            THEN Caught(j, "step")
            ELSE Step(j, "edit", [l EXCEPT !.panels = built.panels,
                                           !.maskCount = Len(built.maskComposites)])
  /\ NoStoreCall
  /\ UNCHANGED << variant, nextId, response, polling, calls >>

\* Mask-edit pipeline: images.edit; no b64_json in the answer is an error.
EditCall(j) ==
  /\ pc[j] = "edit"
  /\ calls' = [calls EXCEPT ![j].image = @ + 1]
  /\ \/ Caught(j, "step")
     \/ \E resp \in ImageResponses :
          IF ~resp.data THEN Caught(j, "noImage")
          ELSE IF ~Truthy(resp.b64_json) THEN Caught(j, "noImage")
          ELSE Step(j, "extract", local[j])
  /\ NoStoreCall
  /\ UNCHANGED << variant, nextId, response, polling >>

\* Mask-edit pipeline: extract the inner region, then every panel region
\* (a failing extraction skips that panel), and the empty overlay check.
ExtractPanels(j) ==
  /\ pc[j] = "extract"
  /\ LET l == local[j]
         lb == Letterbox(l.origWidth, l.origHeight)
     IN  \/ Caught(j, "step")
         \/ \E failing \in ExtractFailures :
              LET overlays == EditOverlays(l.panels, Len(l.panels), lb,
                                           l.origWidth, l.origHeight, failing)
              IN  IF Len(overlays) = 0
                  THEN Caught(j, "noOverlays")
                  ELSE Step(j, "composite", [l EXCEPT !.overlays = overlays])
  /\ NoStoreCall
  /\ UNCHANGED << variant, nextId, response, polling, calls >>

\* Composite the overlays onto the original image and encode the result.
Composite(j) ==
  /\ pc[j] = "composite"
  /\ \/ Caught(j, "step")
     \/ Step(j, "completed", [local[j] EXCEPT !.resultUrl = ResultUrl])
  /\ NoStoreCall
  /\ UNCHANGED << variant, nextId, response, polling, calls >>

\* Generation pipeline: `b64_json ? data URL : response.data[0].url`.
GeneratedUrl(resp) ==
  IF Truthy(resp.b64_json) THEN "data:image/png;base64," \o resp.b64_json
  ELSE resp.url

\* A generation pipeline without the `if (generatedUrl)` check.
GeneratedStatusUnchecked(generatedUrl) == "completed"

\* Generation pipeline: the status written for the generated url.
GeneratedStatus(generatedUrl) ==
  IF Truthy(generatedUrl) THEN "completed" ELSE "failed"

\* Generation pipeline: images.generate.
GenerateCall(j) ==
  /\ pc[j] = "generate"
  /\ calls' = [calls EXCEPT ![j].image = @ + 1]
  /\ \/ Caught(j, "step")
     \/ \E resp \in ImageResponses :
          IF ~resp.data
          THEN Caught(j, "noImage")
          ELSE IF GeneratedStatus(GeneratedUrl(resp)) = "completed"
               THEN Step(j, "completed",
                         [local[j] EXCEPT !.resultUrl = GeneratedUrl(resp)])
               ELSE NoUrl(j, [local[j] EXCEPT !.resultUrl = GeneratedUrl(resp)])
  /\ NoStoreCall
  /\ UNCHANGED << variant, nextId, response, polling >>

\* A `finally` in place of the `catch`: the 'failed' write always runs.
AfterCompletedFinally(ok) == "catch"

\* Where control goes after the 'completed' write: out of the function when
\* it returned, into the catch block when it threw.
AfterCompleted(ok) == IF ok THEN "resolved" ELSE "catch"

\* await storage.updateDesignStatus(designId, "completed", resultUrl)
WriteCompleted(j) ==
  /\ pc[j] = "completed"
  /\ \E ok \in BOOLEAN :
       /\ StoreCall(j, DesignIdOf(j), "completed", local[j].resultUrl, ok)
       /\ IF AfterCompleted(ok) = "catch"
          THEN Caught(j, "store")
          ELSE Settle(j, "resolved")
  /\ UNCHANGED << variant, nextId, response, polling, calls >>

\* Generation pipeline: the 'failed' write of the else branch, inside try.
WriteFailedInTry(j) ==
  /\ pc[j] = "failedInTry"
  /\ \E ok \in BOOLEAN :
       /\ StoreCall(j, DesignIdOf(j), "failed", Undefined, ok)
       /\ IF ok THEN Settle(j, "resolved") ELSE Caught(j, "store")
  /\ UNCHANGED << variant, nextId, response, polling, calls >>

\* A catch block that puts the job back to 'pending'.
CatchStatusReset == "pending"

\* The status the catch block writes.
CatchStatus == "failed"

\* A catch block that runs the job again after marking it failed.
AfterCatchRetry(ok) == IF ok THEN "start" ELSE "rejected"

\* How the promise settles after the catch block's write: nothing catches
\* an exception of that call, so the promise rejects.
AfterCatch(ok) == IF ok THEN "resolved" ELSE "rejected"

\* The catch block: await storage.updateDesignStatus(designId, "failed").
CatchWrite(j) ==
  /\ pc[j] = "catch"
  /\ \E ok \in BOOLEAN :
       /\ StoreCall(j, DesignIdOf(j), CatchStatus, Undefined, ok)
       /\ Settle(j, AfterCatch(ok))
  /\ UNCHANGED << variant, nextId, response, polling, calls >>

\* ------------------------------------------------------ the specification

Next ==
  \/ HomeSubmit
  \/ \E j \in Jobs :
       \/ Poll(j)
       \/ Regenerate(j)
       \/ WriteProcessing(j)
       \/ DecodeImage(j)
       \/ VisionCall(j)
       \/ BuildOverlays(j)
       \/ BuildMaskStep(j)
       \/ EditCall(j)
       \/ ExtractPanels(j)
       \/ Composite(j)
       \/ GenerateCall(j)
       \/ WriteCompleted(j)
       \/ WriteFailedInTry(j)
       \/ CatchWrite(j)

Spec == Init /\ [][Next]_vars

\* ------------------------------------------- one job, every vision answer

\* The procedural pipeline run for a single job, with the vision service
\* answering anything of AnalysisTexts.
LayoutInit == Init /\ variant = "procedural"

LayoutSubmit ==
  /\ nextId = 1
  /\ \E img \in LayoutImages :
       PostDesigns([originalImageUrl |-> img, prompt |-> HomePrompt])

LayoutVisionCall(j) == VisionAnswers(j, AnalysisTexts)

LayoutNext ==
  \/ LayoutSubmit
  \/ \E j \in Jobs :
       \/ WriteProcessing(j)
       \/ DecodeImage(j)
       \/ LayoutVisionCall(j)
       \/ BuildOverlays(j)
       \/ Composite(j)
       \/ WriteCompleted(j)
       \/ CatchWrite(j)

LayoutSpec == LayoutInit /\ [][LayoutNext]_vars

\* ----------------------------------------------- one job, mask-edit runs

\* The mask-edit pipeline run for a single job on MaskImages and MaskTexts.
MaskInit == Init /\ variant = "maskEdit"

MaskSubmit ==
  /\ nextId = 1
  /\ \E img \in MaskImages :
       PostDesigns([originalImageUrl |-> img, prompt |-> HomePrompt])

MaskVisionCall(j) == VisionAnswers(j, MaskTexts)

MaskNext ==
  \/ MaskSubmit
  \/ \E j \in Jobs :
       \/ WriteProcessing(j)
       \/ DecodeImage(j)
       \/ MaskVisionCall(j)
       \/ BuildMaskStep(j)
       \/ EditCall(j)
       \/ ExtractPanels(j)
       \/ Composite(j)
       \/ WriteCompleted(j)
       \/ CatchWrite(j)

MaskSpec == MaskInit /\ [][MaskNext]_vars

\* ------------------------------------------------------------- vocabulary

Finished(j) == pc[j] \in {"resolved", "rejected"}
Terminal(status) == status \in {"completed", "failed"}

\* ------------------------------------------------------------------ claims

\* The status changes the orchestrator's state machine names.
StatusPath ==
  { << "pending", "processing" >>, << "processing", "completed" >>,
    << "processing", "failed" >> }

\* The applied writes of a terminal status in job j's log.
TerminalWrites(j) ==
  {i \in 1..Len(writes[j]) : writes[j][i].ok /\ Terminal(writes[j][i].status)}

\* Once terminal, the row is never written again (no call at all is made).
StableOnceTerminal(j) ==
  Terminal(designs[j].status) => designs'[j] = designs[j] /\ writes'[j] = writes[j]

\* C1 as stated: for every job the stored status only changes along
\* pending -> processing -> completed or pending -> processing -> failed,
\* a terminal status is reached at most once, and once terminal the status
\* and processedImageUrl are never written again.
C1_OnlyViaProcessing ==
  [][\A j \in Jobs :
       /\ (designs[j].exists /\ designs'[j].status # designs[j].status)
            => << designs[j].status, designs'[j].status >> \in StatusPath
       /\ StableOnceTerminal(j)
       /\ Cardinality(TerminalWrites(j)') <= 1]_vars

\* C1 amended: the stored status only changes along pending -> processing
\* -> completed, pending -> processing -> failed, or directly pending ->
\* failed when the 'processing' write itself threw; a terminal status is
\* reached at most once, and once terminal the row is never written again.
C1_StatusPath ==
  [][\A j \in Jobs :
       /\ (designs[j].exists /\ designs'[j].status # designs[j].status)
            => \/ << designs[j].status, designs'[j].status >> \in StatusPath
               \/ /\ designs[j].status = "pending"
                  /\ designs'[j].status = "failed"
                  /\ Len(writes[j]) = 1
                  /\ writes[j][1].status = "processing"
                  /\ ~writes[j][1].ok
       /\ StableOnceTerminal(j)
       /\ Cardinality(TerminalWrites(j)') <= 1]_vars

\* C1 witness: one job completed with its image, another went from pending
\* to failed after its 'processing' write threw.
C1_Witness ==
  \E j, k \in Jobs :
    /\ designs[j].status = "completed" /\ Truthy(designs[j].processedImageUrl)
    /\ designs[k].status = "failed" /\ Len(writes[k]) = 2 /\ ~writes[k][1].ok

\* Failures of a step after the 'processing' write.
StepFailures == {"step", "noOverlays", "noImage"}

\* C2: when a step after the 'processing' write throws, the next status
\* write made for the job is 'failed' (it is the only one made after the
\* throw, and it carries no image), and processedImageUrl stays unset.
C2_FailedAfterThrow ==
  \A j \in Jobs :
    failure[j] \in StepFailures =>
      /\ designs[j].processedImageUrl = Null
      /\ Len(writes[j]) \in {1, 2}
      /\ writes[j][1] = [status |-> "processing", url |-> Undefined, ok |-> TRUE]
      /\ (Len(writes[j]) = 1 <=> pc[j] = "catch")
      /\ Len(writes[j]) = 2 =>
           writes[j][2].status = "failed" /\ writes[j][2].url = Undefined

\* C2 witness: a step threw, the catch block wrote 'failed', the job is failed.
C2_Witness ==
  \E j \in Jobs :
    /\ failure[j] = "step" /\ pc[j] = "resolved"
    /\ designs[j].status = "failed" /\ Len(writes[j]) = 2

\* C3 as stated: the promise returned by processDesign never rejects,
\* whatever fails, a job-store update included.
C3_NeverRejects == \A j \in Jobs : pc[j] # "rejected"

\* C4 as stated: whenever processDesign has finished, the job's stored
\* status is neither pending nor processing.
C4_FinishedIsTerminal ==
  \A j \in Jobs : Finished(j) => Terminal(designs[j].status)

\* C5: a completed job has a non-empty processedImageUrl; a pending,
\* processing or failed job has none.
C5_ImageIffCompleted ==
  \A j \in Jobs :
    designs[j].exists =>
      /\ designs[j].status \in {"pending", "processing", "completed", "failed"}
      /\ designs[j].status = "completed" => Truthy(designs[j].processedImageUrl)
      /\ designs[j].status # "completed" => designs[j].processedImageUrl = Null

\* C5 witness: a completed job with its image next to a failed job without.
C5_Witness ==
  \E j, k \in Jobs :
    /\ designs[j].status = "completed" /\ Truthy(designs[j].processedImageUrl)
    /\ designs[k].status = "failed" /\ designs[k].processedImageUrl = Null
    /\ failure[k] # "none"

\* C6: every job whose processDesign was started has been answered 201
\* with the row in status pending and without image, wherever its
\* processing stands (in flight, completed, failed, rejected); no answer
\* exists for a job that was not created.
C6_FireAndForget ==
  \A j \in Jobs :
    IF pc[j] = "none"
    THEN response[j].code = 0 /\ ~designs[j].exists
    ELSE response[j] = [code |-> 201, status |-> "pending",
                        processedImageUrl |-> Null]

\* C6 witness: the answers were 201/pending for a job that later completed,
\* and for a job whose processing is still in flight.
C6_Witness ==
  \E j, k \in Jobs :
    /\ designs[j].status = "completed" /\ response[j].status = "pending"
    /\ pc[k] \in {"vision", "generate"} /\ response[k].code = 201

\* The row of job r as its own updateDesignStatus calls alone make it.
RECURSIVE ApplyWrites(_, _, _)
ApplyWrites(row, ws, n) ==
  IF n = 0 THEN row
  ELSE LET prev == ApplyWrites(row, ws, n - 1)
       IN  IF ws[n].ok THEN updateDesignStatus(prev, ws[n].status, ws[n].url)
           ELSE prev

\* C7: in every interleaving each row is changed only by the invocation
\* started for it, there is exactly one invocation per created job, and
\* the row is exactly what that job's own store calls make of the created
\* row: it does not depend on any other job's progress.
C7_OwnWriterOnly ==
  \A r \in Jobs :
    /\ writer[r] \subseteq {r}
    /\ calls[r].invocations = IF designs[r].exists THEN 1 ELSE 0
    /\ designs[r].exists =>
         designs[r] =
           ApplyWrites(createDesign([originalImageUrl |-> designs[r].originalImageUrl,
                                     prompt |-> designs[r].prompt]),
                       writes[r], Len(writes[r]))

\* C7 witness: two invocations in flight together, one in its catch block,
\* the other about to write 'completed'.
C7_Witness ==
  \E j, k \in Jobs :
    /\ j # k
    /\ pc[j] = "catch" /\ designs[j].status = "processing"
    /\ pc[k] = "completed" /\ designs[k].status = "processing"

\* C8: processDesign is invoked exactly once per job and calls the vision
\* service and the image service at most once each; a finished job is never
\* processed again; creating a job (Try Again included) takes a new id and
\* leaves every earlier row and invocation as it was.
C8_NoRetry ==
  [][\A j \in Jobs :
       /\ calls'[j].invocations <= 1 /\ calls'[j].vision <= 1 /\ calls'[j].image <= 1
       /\ designs'[j].exists => calls'[j].invocations = 1
       /\ Finished(j) =>
            pc'[j] = pc[j] /\ calls'[j] = calls[j] /\ designs'[j] = designs[j]
       /\ (designs'[j].exists /\ ~designs[j].exists) =>
            /\ j = nextId /\ nextId' = nextId + 1
            /\ designs'[j].status = "pending"
            /\ \A r \in Jobs \ {j} :
                 designs'[r] = designs[r] /\ pc'[r] = pc[r] /\ calls'[r] = calls[r]]_vars

\* C8 witness: a failed job, seen as failed by its page, and the new job
\* made from the same image; the failed job's service calls stay at one.
C8_Witness ==
  \E j, k \in Jobs :
    /\ j < k
    /\ designs[j].status = "failed" /\ Finished(j) /\ ~polling[j]
    /\ calls[j].vision + calls[j].image >= 1
    /\ designs[k].exists /\ designs[k].originalImageUrl = designs[j].originalImageUrl
    /\ pc[k] # "start"

\* C9 as stated: when zero panels survive, the job ends failed and has no
\* image (the base image is never stored as a completed result).
C9_NoPanelsEndsFailed ==
  \A j \in Jobs :
    (failure[j] = "noOverlays" /\ Finished(j)) =>
      designs[j].status = "failed" /\ designs[j].processedImageUrl = Null

\* C10 as stated: when the image service returns no usable image, the job
\* ends failed and has no processedImageUrl.
C10_NoImageEndsFailed ==
  \A j \in Jobs :
    (failure[j] \in {"noImage", "noUrl"} /\ Finished(j)) =>
      designs[j].status = "failed" /\ designs[j].processedImageUrl = Null

\* The image is large enough for the default layout of 5 to give overlays.
DefaultLayoutFits(imageUrl) ==
  Survivors(ValidatePanels(createDefaultLayout(5)),
            ImageMeta(imageUrl).width, ImageMeta(imageUrl).height) # {}

\* A usable analysis: a panel count of 3, 5 or 10, that many panels, wall
\* bounds and panel centers that are numbers.
UsableAnalysis(l) ==
  /\ l.panelCount \in {3, 5, 10}
  /\ Len(l.panels) = l.panelCount
  /\ l.wallBounds.t = "object"
  /\ \A i \in 1..Len(l.panels) : ~IsNaN(l.panels[i])

\* C11 as stated: whatever the analysis text, the parse/validation step
\* yields a usable analysis, and on an image that the default layout fits
\* the job does not fail for want of panels because of what the text says.
C11_ParsingNeverFatal ==
  \A j \in Jobs :
    /\ pc[j] = "overlays" => UsableAnalysis(local[j])
    /\ (designs[j].exists /\ DefaultLayoutFits(designs[j].originalImageUrl))
         => failure[j] # "noOverlays"

\* C12 as stated: when the analysis text holds no parsable JSON, the wall
\* bounds used by the pipeline are exactly {x:15, y:15, width:70, height:70}.
C12_DefaultWallEstimate ==
  \A j \in Jobs :
    (pc[j] = "overlays" /\ local[j].analysisText.kind # "object")
      => local[j].wallBounds = Bounds(15, 15, 70, 70)

\* C13 as stated: the wall bounds used for panel validation are numbers
\* with x and y in [0,100] and width and height in [20,100].
C13_WallBoundsClamped ==
  \A j \in Jobs :
    pc[j] = "overlays" =>
      /\ local[j].wallBounds.t = "object"
      /\ local[j].wallBounds.x \in 0..100
      /\ local[j].wallBounds.y \in 0..100
      /\ local[j].wallBounds.width \in 20..100
      /\ local[j].wallBounds.height \in 20..100

\* The panel rectangles among the overlays handed to the compositor.
PanelLayersOf(l) ==
  {i \in 1..Len(l.overlays) : l.overlays[i].kind = "panel"}

\* C14 as stated: every panel rectangle that reaches the compositor has
\* integer x >= 0, y >= 0, w >= 10, h >= 10, x + w <= imageWidth and
\* y + h <= imageHeight.
C14_RectInsideImage ==
  \A j \in Jobs :
    pc[j] = "composite" =>
      \A i \in PanelLayersOf(local[j]) :
        LET r == local[j].overlays[i]
        IN  /\ ~r.nan
            /\ r.left >= 0 /\ r.top >= 0
            /\ r.width >= 10 /\ r.height >= 10
            /\ r.left + r.width <= local[j].origWidth
            /\ r.top + r.height <= local[j].origHeight

\* C15 as stated: the panel set used for a job is chosen from the wall
\* estimate alone (the largest set the wall admits): two answers that give
\* the same wall never lead to different panel sets.
C15_SetChosenFromWall ==
  \A j \in Jobs :
    pc[j] = "overlays" =>
      \A text \in AnalysisTexts :
        LET analysis == ParseAnalysis(text)
        IN  WallBoundsOrDefault(analysis.wallBounds) = local[j].wallBounds
              => analysis.panelCount = local[j].panelCount

\* C16 as stated: the layout handed to pixel mapping has exactly as many
\* panels as the selected set (3, 5 or 10), and every entry has width > 0,
\* height > 0 and x, y, width, height within [0,100] (0..200 half-percent).
C16_LayoutWellFormed ==
  \A j \in Jobs :
    pc[j] = "overlays" =>
      /\ local[j].panelCount \in {3, 5, 10}
      /\ Len(local[j].panels) = local[j].panelCount
      /\ \A i \in 1..Len(local[j].panels) :
           LET panel == local[j].panels[i]
           IN  /\ ~IsNaN(panel)
               /\ panel.width > 0 /\ panel.height > 0
               /\ panel.x \in 0..200 /\ panel.y \in 0..200
               /\ panel.width \in 0..200 /\ panel.height \in 0..200

\* Sum of the widths of panels 1..n.
RECURSIVE TotalWidth(_, _)
TotalWidth(panels, n) ==
  IF n = 0 THEN 0 ELSE TotalWidth(panels, n - 1) + panels[n].width

Distance(a, b) == IF a >= b THEN a - b ELSE b - a

\* Two panels given by center and size intersect.
Intersect(p, q) ==
  /\ 2 * Distance(p.x, q.x) < p.width + q.width
  /\ 2 * Distance(p.y, q.y) < p.height + q.height

\* C17 as stated: whenever the panels' total width fits within the wall,
\* no two distinct panels of the layout that is mapped to pixels intersect.
C17_NoOverlap ==
  \A j \in Jobs :
    ( /\ pc[j] = "overlays"
      /\ local[j].wallBounds.t = "object"
      /\ TotalWidth(local[j].panels, Len(local[j].panels))
           <= 2 * local[j].wallBounds.width )
    => \A i, k \in 1..Len(local[j].panels) :
         i # k => ~Intersect(local[j].panels[i], local[j].panels[k])

\* The overlays of an invocation are computed and not yet out of scope.
HasOverlays(j) == pc[j] \in {"composite", "completed"}

C20_ProcessingBeforeCalls ==
  [][\A j \in Jobs :
       /\ Len(writes'[j]) >= 1 => writes'[j][1].status = "processing"
       /\ (calls'[j].vision + calls'[j].image > calls[j].vision + calls[j].image)
            => /\ designs[j].status = "processing"
               /\ writes[j] = << [status |-> "processing", url |-> Undefined,
                                  ok |-> TRUE] >>]_vars

\* C20 witness: a service call was made for a job in status 'processing'.
C20_Witness ==
  \E j \in Jobs :
    /\ calls[j].vision + calls[j].image = 1
    /\ designs[j].status = "processing"
    /\ pc[j] \in {"overlays", "mask", "completed"}

\* C21: in the overlay list handed to the compositor the panels appear in
\* generation order, each panel has exactly one fill layer, its shadow
\* (when present) comes immediately before it and never after it, and
\* inside the panel image the highlight is composited above the fill.
C21_LayerOrder ==
  \A j \in Jobs :
    (pc[j] = "composite" /\ variant = "procedural") =>
      LET o == local[j].overlays
      IN  /\ \A a, b \in 1..Len(o) : a < b => o[a].panel <= o[b].panel
          /\ \A a \in 1..Len(o) :
               /\ o[a].kind \in {"shadow", "panel"}
               /\ o[a].kind = "shadow" =>
                    /\ a < Len(o)
                    /\ o[a + 1].kind = "panel" /\ o[a + 1].panel = o[a].panel
               /\ o[a].kind = "panel" =>
                    /\ \A b \in 1..Len(o) :
                         (o[b].panel = o[a].panel /\ b # a)
                           => (o[b].kind = "shadow" /\ b = a - 1)
                    /\ LET stack == PanelStack([w |-> o[a].width, h |-> o[a].height])
                       IN  /\ stack[1].kind = "fill" /\ stack[2].kind = "highlight"
                           /\ stack[2].width = stack[1].width
                           /\ stack[2].height \in 2..stack[1].height

\* C21 witness: overlays of several panels with their shadows, the first
\* panel's shadow right before its fill.
C21_Witness ==
  \E j \in Jobs :
    /\ pc[j] = "composite" /\ variant = "procedural"
    /\ Len(local[j].overlays) >= 4
    /\ local[j].overlays[1].kind = "shadow"
    /\ local[j].overlays[2].kind = "panel"
    /\ local[j].overlays[3].panel > local[j].overlays[2].panel

\* C22 as stated: pixel positions are taken relative to the wall region:
\* the panel's pixel width is round(width% of the wall's pixel width) and
\* its centre is the wall's left edge plus x% of the wall's pixel width
\* (and likewise vertically).
C22_WallRelativePixels ==
  \A j \in Jobs :
    (pc[j] = "overlays" /\ variant = "procedural"
       /\ local[j].wallBounds.t = "object") =>
      \A i \in 1..Len(local[j].panels) :
        LET panel == local[j].panels[i]
            wb == local[j].wallBounds
            W == local[j].origWidth
            H == local[j].origHeight
            raw == RawRect(panel, W, H)
            wallW == RoundDiv(panel.width * wb.width * W, 20000)
            wallH == RoundDiv(panel.height * wb.height * H, 20000)
        IN  ~IsNaN(panel) =>
              /\ raw.w = wallW
              /\ raw.h = wallH
              /\ raw.x = RoundDiv(W * (200 * wb.x + panel.x * wb.width)
                                    - 10000 * wallW, 20000)
              /\ raw.y = RoundDiv(H * (200 * wb.y + panel.y * wb.height)
                                    - 10000 * wallH, 20000)

\* A validated panel whose extent lies within 0..100 on both axes:
\* x - width/2 >= 0 and x + width/2 <= 100, likewise for y (the panel is
\* in half-percent units).
InRange(panel) ==
  /\ ~IsNaN(panel)
  /\ 2 * panel.x - panel.width >= 0 /\ 2 * panel.x + panel.width <= 400
  /\ 2 * panel.y - panel.height >= 0 /\ 2 * panel.y + panel.height <= 400

\* C23: for a panel whose extent lies within 0..100 no clamp applies: the
\* rectangle used is the one first computed (w = round(width% of the
\* extent), x = round(centre - w/2)), it already satisfies x >= 0 and
\* x + w <= imageWidth (likewise vertically), and it is the rectangle the
\* compositor gets for that panel.
C23_NoClampInRange ==
  \A j \in Jobs :
    (pc[j] \in {"overlays", "composite"} /\ variant = "procedural") =>
      LET l == local[j]
      IN  /\ \A i \in 1..Len(l.panels) :
               InRange(l.panels[i]) =>
                 LET raw == RawRect(l.panels[i], l.origWidth, l.origHeight)
                     rect == PanelRect(l.panels[i], l.origWidth, l.origHeight)
                 IN  /\ raw.x >= 0 /\ raw.x + raw.w <= l.origWidth
                     /\ raw.y >= 0 /\ raw.y + raw.h <= l.origHeight
                     /\ rect = raw
          /\ \A a \in PanelLayersOf(l) :
               InRange(l.panels[l.overlays[a].panel]) =>
                 LET raw == RawRect(l.panels[l.overlays[a].panel],
                                    l.origWidth, l.origHeight)
                 IN  /\ l.overlays[a].left = raw.x /\ l.overlays[a].top = raw.y
                     /\ l.overlays[a].width = raw.w /\ l.overlays[a].height = raw.h

\* C23 witness: a composited panel whose extent reaches 100 exactly and
\* whose rectangle ends on the last pixel column of the image.
C23_Witness ==
  \E j \in Jobs :
    /\ pc[j] = "composite" /\ variant = "procedural"
    /\ \E a \in PanelLayersOf(local[j]) :
         LET panel == local[j].panels[local[j].overlays[a].panel]
         IN  /\ InRange(panel)
             /\ 2 * panel.x + panel.width = 400
             /\ local[j].overlays[a].left + local[j].overlays[a].width
                  = local[j].origWidth

\* The panels whose rectangle measures at least 10 px both ways after the
\* clamps.
BigEnough(l) ==
  {i \in 1..Len(l.panels) :
     /\ PanelRect(l.panels[i], l.origWidth, l.origHeight).w >= 10
     /\ PanelRect(l.panels[i], l.origWidth, l.origHeight).h >= 10}

\* C24: a panel narrower or lower than 10 px after the clamps is skipped
\* and the skip is no error: when the panel loop is left for the
\* compositor, the fills handed over are exactly those of the remaining
\* panels, once each and in their original relative order, and the loop
\* fails for want of overlays only when no panel remains.
C24_SmallPanelsSkipped ==
  [][\A j \in Jobs :
       (pc[j] = "overlays" /\ variant = "procedural" /\ pc'[j] # "overlays") =>
         LET l == local[j]
             o == local'[j].overlays
             fills == {a \in 1..Len(o) : o[a].kind = "panel"}
         IN  /\ pc'[j] = "composite" =>
                  /\ {o[a].panel : a \in fills} = BigEnough(l)
                  /\ \A a, b \in fills : a < b => o[a].panel < o[b].panel
                  /\ local'[j].panels = l.panels
             /\ pc'[j] = "catch" =>
                  (failure'[j] = "noOverlays" <=> BigEnough(l) = {})
             /\ pc'[j] \in {"composite", "catch"}]_vars

\* C24 witness: a job about to write 'completed' whose layout had a panel
\* under 10 px and two panels that were composited.
C24_Witness ==
  \E j \in Jobs :
    /\ pc[j] = "completed" /\ variant = "procedural"
    /\ BigEnough(local[j]) # 1..Len(local[j].panels)
    /\ \E a, b \in PanelLayersOf(local[j]) :
         local[j].overlays[a].panel < local[j].overlays[b].panel

\* C25: after parsing the panel count is exactly 3, 5 or 10 whatever the
\* answer gave (nothing, a non-number, zero, a negative, an in-between or a
\* huge number), on the success path and on the fallback path alike, and
\* the count of the panel set selected from it equals the panel count.
C25_PanelCountSnapped ==
  \A j \in Jobs :
    (pc[j] = "overlays" /\ variant = "procedural") =>
      LET l == local[j]
      IN  /\ l.panelCount \in {3, 5, 10}
          /\ PANEL_SETS[panelSetKey(l.panelCount)].count = l.panelCount
          /\ l.analysisText.kind # "object" => l.panelCount = 5

\* C25 witness: an answer that parsed and whose panelCount was a number
\* other than 3, 5 and 10.
C25_Witness ==
  \E j \in Jobs :
    /\ pc[j] = "overlays" /\ variant = "procedural"
    /\ local[j].analysisText.kind = "object"
    /\ ~ParseThrows(local[j].analysisText)
    /\ local[j].analysisText.panelCount.t = "num"
    /\ local[j].analysisText.panelCount.v \notin {0, 3, 5, 10}

\* C26: the loop that fills missing panels terminates: the default layout
\* for the count holds exactly that many panels, so each iteration appends
\* one panel and as many iterations as panels are missing suffice; the
\* array ends with exactly panelCount entries, the panels of the answer
\* keep their places at the front and the default panels of the same
\* index follow; the layout of the job has that many panels of those sizes.
C26_FillLoopTerminates ==
  \A j \in Jobs :
    (pc[j] = "overlays" /\ variant = "procedural"
       /\ ~ParseThrows(local[j].analysisText)) =>
      LET l == local[j]
          count == CoercePanelCount(l.analysisText.panelCount)
          given == ClampPanels(l.analysisText.panels.items)
          missing == Max(0, count - Len(given))
          filled == NormalizePanels(given, count)
      IN  /\ Len(DefaultPanels(count)) = count
          /\ Len(FillPanels(given, count, DefaultPanels(count), missing)) >= count
          /\ Len(filled) = count
          /\ \A i \in 1..count :
               filled[i] = IF i <= Len(given) THEN given[i]
                           ELSE DefaultPanels(count)[i]
          /\ l.panelCount = count
          /\ Len(l.panels) = count
          /\ \A i \in 1..count :
               /\ l.panels[i].width = 2 * filled[i].width
               /\ l.panels[i].height = 2 * filled[i].height

\* C26 witness: an answer with fewer panels than its count, but some: the
\* loop ran and the panels of the answer stayed in front.
C26_Witness ==
  \E j \in Jobs :
    /\ pc[j] = "overlays" /\ variant = "procedural"
    /\ ~ParseThrows(local[j].analysisText)
    /\ Len(local[j].analysisText.panels.items) > 0
    /\ Len(local[j].analysisText.panels.items) < local[j].panelCount
    /\ Len(local[j].panels) = local[j].panelCount

\* The panel (half-percent units) lies between the wall's left and right
\* edges, and between its top and bottom edges.
InsideWallX(panel, wb) ==
  /\ ~IsNaN(panel) /\ wb.t = "object"
  /\ 4 * wb.x <= 2 * panel.x - panel.width
  /\ 2 * panel.x + panel.width <= 4 * (wb.x + wb.width)
InsideWallY(panel, wb) ==
  /\ ~IsNaN(panel) /\ wb.t = "object"
  /\ 4 * wb.y <= 2 * panel.y - panel.height
  /\ 2 * panel.y + panel.height <= 4 * (wb.y + wb.height)

C28_OverlayPerMaskRegion ==
  \A j \in Jobs :
    variant = "maskEdit" =>
      /\ pc[j] \in {"edit", "extract", "composite", "completed"}
           => local[j].maskCount = local[j].panelCount
      /\ pc[j] \in {"composite", "completed"}
           => Len(local[j].overlays) = local[j].maskCount

\* C29 as stated: letterboxing maps every original image size to an inner
\* region of positive width and height whose longer side is 1024, centered
\* on the padded axis (the paddings differ by at most 1 px, the other
\* offset is 0) and inside the 1024x1024 canvas.
C29_LetterboxRegion ==
  \A j \in Jobs :
    (variant = "maskEdit" /\ pc[j] \in {"mask", "edit", "extract"}) =>
      LET lb == Letterbox(local[j].origWidth, local[j].origHeight)
          padX == targetSize - lb.innerWidth - lb.offsetX
          padY == targetSize - lb.innerHeight - lb.offsetY
      IN  /\ lb.innerWidth >= 1 /\ lb.innerHeight >= 1
          /\ Max(lb.innerWidth, lb.innerHeight) = targetSize
          /\ lb.offsetX >= 0 /\ lb.offsetY >= 0
          /\ lb.offsetX + lb.innerWidth <= targetSize
          /\ lb.offsetY + lb.innerHeight <= targetSize
          /\ padX - lb.offsetX \in {-1, 0, 1}
          /\ padY - lb.offsetY \in {-1, 0, 1}
          /\ lb.innerWidth = targetSize => lb.offsetX = 0
          /\ lb.innerHeight = targetSize => lb.offsetY = 0

\* C30 as stated: in the mask-edit pipeline every panel overlay scaled back
\* to original-image pixels lies within the original image: position >= 0,
\* size >= 1, x + w <= origWidth and y + h <= origHeight.
C30_ScaledBackInsideImage ==
  \A j \in Jobs :
    (variant = "maskEdit" /\ pc[j] = "composite") =>
      \A a \in PanelLayersOf(local[j]) :
        LET r == local[j].overlays[a]
        IN  /\ r.left >= 0 /\ r.top >= 0
            /\ r.width >= 1 /\ r.height >= 1
            /\ r.left + r.width <= local[j].origWidth
            /\ r.top + r.height <= local[j].origHeight

====
